---- MODULE Spec2Model ----
(***************************************************************************)
(* Verification model of the AgentSwarm orchestrator core:                 *)
(*   - AgentRegistry      (services/agentRegistry.ts)                      *)
(*   - ConsensusCalculator (services/consensusCalculator.ts)               *)
(*   - POST /request and POST /request-paid (routes/orchestrator.ts)       *)
(*                                                                         *)
(* JavaScript numbers that are not integers (successRate,                  *)
(* averageResponseTime) are modelled as exact reduced fractions            *)
(* [num, den].  Node runs every handler to its next await without          *)
(* interleaving, so one action is one such run.                            *)
(***************************************************************************)
EXTENDS Integers, Sequences, FiniteSets, TLC

VARIABLES
    agents,      \* AgentRegistry.agents : id -> RegisteredAgent
    calls,       \* observation: per id, the updateAgentReputation calls made so far
    lastCall,    \* observation: the last service call made directly and its result
    env,         \* process.env.USE_REAL_PAYMENTS
    privateKey,  \* whether process.env.ORCHESTRATOR_PRIVATE_KEY is set
    paidAxios,   \* module variable paidAxios: "null" or "paid"
    paymentMw,   \* module variable paymentMw: "null" or "mw"
    reqs         \* the HTTP requests: position of each handler and what it holds

registryVars == <<agents, calls, lastCall>>
dispatchVars == <<env, privateKey, paidAxios, paymentMw, reqs>>
vars == <<agents, calls, lastCall, env, privateKey, paidAxios, paymentMw, reqs>>

----------------------------------------------------------------------------
(* Bounds *)

\* total number of updateAgentReputation calls explored by RegistrySpec
MaxUpdates == 3

\* number of HTTP requests explored by Spec
MaxRequests == 2

\* total number of specialist calls issued by the requests of Spec
MaxCalls == 3

\* length of the response lists explored by ConsensusSpec
MaxResponses == 5

----------------------------------------------------------------------------
(* Numbers *)

RECURSIVE GCD(_, _)
GCD(a, b) == IF b = 0 THEN a ELSE GCD(b, a % b)

\* the number n/d (d > 0) as a value: two equal numbers are equal records
Rat(n, d) ==
    LET g == GCD(n, d) IN [num |-> n \div g, den |-> d \div g]

\* Math.round(n/d): nearest integer, a half rounds up
MathRound(n, d) == (2 * n + d) \div (2 * d)

----------------------------------------------------------------------------
(* AgentRegistry *)

\* insertion order of the Map (agents.forEach(agent => this.agents.set(...)))
AgentOrder ==
    << "security-001", "data-001", "social-001", "price-001", "history-001" >>

AgentIds == { AgentOrder[i] : i \in 1..Len(AgentOrder) }

\* an id no record is registered under
UnknownId == "unknown-999"

NewAgent(id, name, endpoint, basePrice, reputation, averageResponseTime) ==
    [ id |-> id, name |-> name, endpoint |-> endpoint,
      basePrice |-> basePrice, reputation |-> reputation,
      totalTasks |-> 0, successRate |-> Rat(1, 1),
      averageResponseTime |-> Rat(averageResponseTime, 1), active |-> TRUE ]

initializeAgents ==
    ( "security-001" :> NewAgent("security-001", "SecurityAgent", "http://localhost:3002", 100000, 95, 2000) ) @@
    ( "data-001"     :> NewAgent("data-001", "DataAgent", "http://localhost:3003", 80000, 92, 1500) ) @@
    ( "social-001"   :> NewAgent("social-001", "SocialAgent", "http://localhost:3004", 50000, 88, 3000) ) @@
    ( "price-001"    :> NewAgent("price-001", "PriceAgent", "http://localhost:3005", 150000, 90, 2500) ) @@
    ( "history-001"  :> NewAgent("history-001", "HistoryAgent", "http://localhost:3006", 80000, 93, 2000) )

\* faulty variant of getAllActiveAgents: a specialist of reputation 0 is left out
getAllActiveAgents_Reputable(ags) ==
    LET all == [ i \in 1..Len(AgentOrder) |-> ags[AgentOrder[i]] ]
        isActive(agent) == agent.active /\ agent.reputation > 0
    IN  SelectSeq(all, isActive)

\* Array.from(this.agents.values()).filter(agent => agent.active)
getAllActiveAgents(ags) ==
    LET all == [ i \in 1..Len(AgentOrder) |-> ags[AgentOrder[i]] ]
        isActive(agent) == agent.active
    IN  SelectSeq(all, isActive)

\* this.agents.get(id); "undefined" stands for JavaScript's undefined
getAgentById(ags, id) ==
    IF id \in DOMAIN ags THEN ags[id] ELSE "undefined"

\* faulty variant of successCountOf: the old rate is weighted with the new totalTasks
successCountOf_NoDecrement(successRate, totalTasks, success) ==
    MathRound(successRate.num * totalTasks, successRate.den)
        + (IF success THEN 1 ELSE 0)

\* line 103: Math.round(agent.successRate * (agent.totalTasks - 1)) + (success ? 1 : 0)
successCountOf(successRate, totalTasks, success) ==
    MathRound(successRate.num * (totalTasks - 1), successRate.den)
        + (IF success THEN 1 ELSE 0)

\* faulty variant of reputationOf: Math.floor instead of Math.round
reputationOf_Floor(successRate) == (successRate.num * 100) \div successRate.den

\* line 105: Math.round(agent.successRate * 100)
reputationOf(successRate) == MathRound(successRate.num * 100, successRate.den)

\* faulty variant of averageResponseTimeOf: the old average is weighted with
\* the new totalTasks
averageResponseTimeOf_NewCount(avg, totalTasks, responseTime) ==
    Rat(avg.num * totalTasks + responseTime * avg.den, avg.den * totalTasks)

\* lines 107-108: (averageResponseTime * (totalTasks - 1) + responseTime) / totalTasks
averageResponseTimeOf(avg, totalTasks, responseTime) ==
    Rat(avg.num * (totalTasks - 1) + responseTime * avg.den, avg.den * totalTasks)

\* faulty variant of updateAgentReputation: a specialist whose reputation
\* drops to 0 is deactivated
updateAgentReputation_Deactivate(ags, id, success, responseTime) ==
    IF id \notin DOMAIN ags THEN ags
    ELSE
      LET agent == ags[id]
          totalTasks == agent.totalTasks + 1
          successCount == successCountOf(agent.successRate, totalTasks, success)
          successRate == Rat(successCount, totalTasks)
      IN  [ ags EXCEPT ![id] =
              [ agent EXCEPT
                  !.totalTasks = totalTasks,
                  !.successRate = successRate,
                  !.reputation = reputationOf(successRate),
                  !.averageResponseTime =
                      averageResponseTimeOf(agent.averageResponseTime, totalTasks, responseTime),
                  !.active = reputationOf(successRate) > 0 ] ]

\* faulty variant of updateAgentReputation: an id that is not registered gets
\* a record of its own, which is then updated
updateAgentReputation_Upsert(ags, id, success, responseTime) ==
    LET known == IF id \in DOMAIN ags THEN ags
                 ELSE ags @@ (id :> NewAgent(id, id, "", 0, 0, 0))
        agent == known[id]
        totalTasks == agent.totalTasks + 1
        successCount == successCountOf(agent.successRate, totalTasks, success)
        successRate == Rat(successCount, totalTasks)
    IN  [ known EXCEPT ![id] =
            [ agent EXCEPT
                !.totalTasks = totalTasks,
                !.successRate = successRate,
                !.reputation = reputationOf(successRate),
                !.averageResponseTime =
                    averageResponseTimeOf(agent.averageResponseTime, totalTasks, responseTime) ] ]

\* lines 98-109; `if (!agent) return;` leaves the Map as it is
updateAgentReputation(ags, id, success, responseTime) ==
    IF id \notin DOMAIN ags THEN ags
    ELSE
      LET agent == ags[id]
          totalTasks == agent.totalTasks + 1
          successCount == successCountOf(agent.successRate, totalTasks, success)
          successRate == Rat(successCount, totalTasks)
      IN  [ ags EXCEPT ![id] =
              [ agent EXCEPT
                  !.totalTasks = totalTasks,
                  !.successRate = successRate,
                  !.reputation = reputationOf(successRate),
                  !.averageResponseTime =
                      averageResponseTimeOf(agent.averageResponseTime, totalTasks, responseTime) ] ]

\* faulty variant of fitsBudget: a price of up to twice the budget fits
fitsBudget_Twice(agent, budget) == agent.basePrice <= 2 * budget

\* faulty variant of fitsBudget: a price equal to the budget does not fit
fitsBudget_Strict(agent, budget) == agent.basePrice < budget

\* .filter(agent => agent.basePrice <= budget)
fitsBudget(agent, budget) == agent.basePrice <= budget

\* .map(agent => ({ agentId, agentName, endpoint, price, estimatedTime, confidence }))
bidOf(agent) ==
    [ agentId |-> agent.id, agentName |-> agent.name, endpoint |-> agent.endpoint,
      price |-> agent.basePrice, estimatedTime |-> agent.averageResponseTime,
      confidence |-> agent.reputation ]

\* comparator (a, b) => b.confidence - a.confidence
compareBids(a, b) == b.confidence - a.confidence

\* faulty variant of InsertSorted: an unstable sort, x goes before its equals
InsertSorted_TiesFirst(sorted, x) ==
    LET later == { i \in 1..Len(sorted) : compareBids(sorted[i], x) >= 0 }
        pos == IF later = {} THEN Len(sorted) + 1
               ELSE CHOOSE i \in later : \A j \in later : i <= j
    IN  SubSeq(sorted, 1, pos - 1) \o <<x>> \o SubSeq(sorted, pos, Len(sorted))

\* Array.prototype.sort is stable: x goes before the first element that the
\* comparator orders strictly after it
InsertSorted(sorted, x) ==
    LET later == { i \in 1..Len(sorted) : compareBids(sorted[i], x) > 0 }
        pos == IF later = {} THEN Len(sorted) + 1
               ELSE CHOOSE i \in later : \A j \in later : i <= j
    IN  SubSeq(sorted, 1, pos - 1) \o <<x>> \o SubSeq(sorted, pos, Len(sorted))

RECURSIVE SortBids(_)
SortBids(s) ==
    IF s = <<>> THEN <<>>
    ELSE InsertSorted(SortBids(SubSeq(s, 1, Len(s) - 1)), s[Len(s)])

getAgentBids(ags, budget) ==
    LET active == getAllActiveAgents(ags)
        fits(agent) == fitsBudget(agent, budget)
        filtered == SelectSeq(active, fits)
        mapped == [ i \in 1..Len(filtered) |-> bidOf(filtered[i]) ]
    IN  SortBids(mapped)

----------------------------------------------------------------------------
(* Observation of the updateAgentReputation calls *)

NoCalls == [ id \in AgentIds \cup {UnknownId} |-> [n |-> 0, ok |-> 0, time |-> 0] ]

RecordCall(cs, id, success, responseTime) ==
    [ cs EXCEPT ![id] = [ n |-> @.n + 1,
                          ok |-> @.ok + (IF success THEN 1 ELSE 0),
                          time |-> @.time + responseTime ] ]

TotalCalls(cs) ==
    LET ids == AgentIds \cup {UnknownId}
        RECURSIVE Sum(_)
        Sum(S) == IF S = {} THEN 0
                  ELSE LET x == CHOOSE y \in S : TRUE IN cs[x].n + Sum(S \ {x})
    IN  Sum(ids)

----------------------------------------------------------------------------
(* JavaScript values that may be absent *)

\* null, undefined and NaN are the empty sequence, a present value v is <<v>>
Null == <<>>
Some(v) == <<v>>
IsNull(x) == x = <<>>
ValueOf(x) == x[1]

----------------------------------------------------------------------------
(* ConsensusCalculator *)

RECURSIVE SumOver(_, _)
SumOver(f, n) == IF n = 0 THEN 0 ELSE f[n] + SumOver(f, n - 1)

\* const maxVariance = 2500
maxVariance == 2500

\* faulty variant of calculateVariance: the sample variance, divisor N - 1
calculateVariance_Sample(numbers) ==
    LET n == Len(numbers)
        total == SumOver(numbers, n)
        squaredDiffs == [ i \in 1..n |-> (n * numbers[i] - total) * (n * numbers[i] - total) ]
    IN  IF n = 1 THEN Rat(0, 1)
        ELSE Rat(SumOver(squaredDiffs, n), n * n * (n - 1))

\* calculateVariance(numbers), for numbers that are all present:
\* the mean of the squared differences from the mean
calculateVariance(numbers) ==
    LET n == Len(numbers)
        total == SumOver(numbers, n)
        \* (x - total/n)^2 = (n*x - total)^2 / n^2
        squaredDiffs == [ i \in 1..n |-> (n * numbers[i] - total) * (n * numbers[i] - total) ]
    IN  Rat(SumOver(squaredDiffs, n), n * n * n)

\* faulty variant of consensusStrengthOf: without the Math.max(0, ...)
consensusStrengthOf_NoClamp(variance) ==
    Rat(maxVariance * variance.den - variance.num, maxVariance * variance.den)

\* line 14: Math.max(0, 1 - (variance / maxVariance))
consensusStrengthOf(variance) ==
    LET slack == maxVariance * variance.den - variance.num
    IN  Rat(IF slack > 0 THEN slack ELSE 0, maxVariance * variance.den)

\* faulty variant of sampleCount: Math.min(responses.length, 4)
sampleCount_CapFour(n) == IF n < 4 THEN n ELSE 4

\* line 19: Math.min(responses.length, 5)
sampleCount(n) == IF n < 5 THEN n ELSE 5

\* faulty variant of atLeastHalf: highCount > responses.length / 2
atLeastHalf_Strict(highCount, n) == 2 * highCount > n

\* line 51: highCount >= responses.length / 2
atLeastHalf(highCount, n) == 2 * highCount >= n

\* lines 55-63: the recommendation of an average score; a comparison with NaN
\* (Null) is false, which falls through to the last branch
scoreRecommendation(avgScore) ==
    LET atLeast(t) == /\ ~IsNull(avgScore)
                      /\ ValueOf(avgScore).num >= t * ValueOf(avgScore).den
    IN  IF atLeast(80) THEN "LOW RISK - APPEARS SAFE"
        ELSE IF atLeast(60) THEN "MEDIUM RISK - EXERCISE CAUTION"
        ELSE IF atLeast(40) THEN "HIGH RISK - NOT RECOMMENDED"
        ELSE "CRITICAL RISK - AVOID COMPLETELY"

\* faulty variant of determineRecommendation: only the first response is
\* tested for CRITICAL
determineRecommendation_FirstResponse(responses, avgScore) ==
    LET n == Len(responses)
        highCount == Cardinality({ i \in 1..n : responses[i].riskLevel = "HIGH" })
    IN  IF n > 0 /\ responses[1].riskLevel = "CRITICAL"
        THEN "CRITICAL RISK - AVOID COMPLETELY"
        ELSE IF atLeastHalf(highCount, n) THEN "HIGH RISK - DO NOT RECOMMEND"
        ELSE scoreRecommendation(avgScore)

\* faulty variant of determineRecommendation: the HIGH majority is tested
\* before the CRITICAL responses
determineRecommendation_MajorityFirst(responses, avgScore) ==
    LET n == Len(responses)
        criticalCount == Cardinality({ i \in 1..n : responses[i].riskLevel = "CRITICAL" })
        highCount == Cardinality({ i \in 1..n : responses[i].riskLevel = "HIGH" })
    IN  IF atLeastHalf(highCount, n) THEN "HIGH RISK - DO NOT RECOMMEND"
        ELSE IF criticalCount > 0 THEN "CRITICAL RISK - AVOID COMPLETELY"
        ELSE scoreRecommendation(avgScore)

\* determineRecommendation(responses, avgScore); avgScore is Null when it is NaN
determineRecommendation(responses, avgScore) ==
    LET n == Len(responses)
        criticalCount == Cardinality({ i \in 1..n : responses[i].riskLevel = "CRITICAL" })
        highCount == Cardinality({ i \in 1..n : responses[i].riskLevel = "HIGH" })
    IN  IF criticalCount > 0 THEN "CRITICAL RISK - AVOID COMPLETELY"
        ELSE IF atLeastHalf(highCount, n) THEN "HIGH RISK - DO NOT RECOMMEND"
        ELSE scoreRecommendation(avgScore)

\* faulty variant of noResponses: the test of the empty list is missing
noResponses_Never(responses) == Len(responses) < 0

\* lines 5-7: an empty list makes calculateConsensus throw
noResponses(responses) == Len(responses) = 0

\* line 23: r.metadata?.price || 0; a response without a price counts 0
priceOf(response) ==
    IF IsNull(response.price) THEN 0 ELSE ValueOf(response.price)

\* calculateConsensus(responses) past the test of lines 5-7; a response whose
\* score is undefined turns every number computed from the scores into NaN,
\* and so does the division by the length of an empty list
calculateConsensus(responses) ==
    LET n == Len(responses)
        allNumbers == n > 0 /\ \A i \in 1..n : ~IsNull(responses[i].score)
        scores == [ i \in 1..n |-> ValueOf(responses[i].score) ]
        averageScore == IF allNumbers THEN Some(Rat(SumOver(scores, n), n)) ELSE Null
        variance == calculateVariance(scores)
        consensusStrength == consensusStrengthOf(variance)
        minN5 == sampleCount(n)
        prices == [ i \in 1..n |-> priceOf(responses[i]) ]
    IN  [ averageScore |->
              IF allNumbers
              THEN Some(MathRound(ValueOf(averageScore).num, ValueOf(averageScore).den))
              ELSE Null,
          consensusStrength |->
              IF allNumbers
              THEN Some(Rat(MathRound(consensusStrength.num * 100, consensusStrength.den), 100))
              ELSE Null,
          recommendation |-> determineRecommendation(responses, averageScore),
          confidence |->
              IF allNumbers
              THEN Some(MathRound(consensusStrength.num * 100 * minN5, consensusStrength.den * 5))
              ELSE Null,
          totalCost |-> SumOver(prices, n),
          responses |-> responses ]

----------------------------------------------------------------------------
(* Inputs *)

\* measured elapsed times of a call, in milliseconds
ResponseTimes == { 1000, 4000 }

\* { timeout: 60000 }: the elapsed time of a call that timed out
callTimeout == 60000

\* budgets around every registered price
Budgets == { -1, 0, 49999, 50000, 80000, 150000 }

\* budgets of the requests: none, too low, one bid, three bids
RequestBudgets == { -1, 0, 49999, 50000, 80000 }

NoCall == [ op |-> "none" ]

\* scores of the responses given to calculateConsensus directly: the ends of
\* the range and a score next to a threshold
ScoreInputs == { 0, 79, 100 }

\* riskLevel of these responses; 'MEDIUM' is tested by no branch, like 'LOW'
RiskLevelInputs == { "LOW", "HIGH", "CRITICAL" }

\* an AgentResponse with the given score and riskLevel
ResponseInput(score, riskLevel) ==
    [ agentId |-> "security-001", agentName |-> "SecurityAgent",
      score |-> Some(score), riskLevel |-> riskLevel,
      price |-> Some(100000), paidViaX402 |-> FALSE, executionTime |-> 1000 ]

\* the responses of the lists; the last one has a score beyond the range,
\* which the code accepts like any other number
ResponseInputs ==
    { ResponseInput(score, riskLevel) :
        score \in ScoreInputs, riskLevel \in RiskLevelInputs }
      \cup { ResponseInput(200, "LOW") }

\* metadata.price of the responses that differ in their price only: absent,
\* 0, and three registered prices
PriceInputs == { Null, Some(0), Some(50000), Some(80000), Some(150000) }

\* responses of score 79 and riskLevel LOW with each of these prices
PricedResponseInputs ==
    { [ ResponseInput(79, "LOW") EXCEPT !.price = price ] : price \in PriceInputs }

\* the lists of at most MaxResponses responses, the empty list included:
\* lists that vary score and riskLevel, and lists that vary the price
ResponseLists ==
    UNION { [ 1..n -> ResponseInputs ] : n \in 0..MaxResponses }
      \cup UNION { [ 1..n -> PricedResponseInputs ] : n \in 1..MaxResponses }

\* request bodies; an absent budget is Null
Body(query, budget, requesterAddress) ==
    [ query |-> query, budget |-> budget, requesterAddress |-> requesterAddress ]

Bodies ==
    { Body("is it safe?", Some(b), "SP2REQUESTER") : b \in RequestBudgets }
      \cup { Body("", Some(80000), "SP2REQUESTER"),
             Body("is it safe?", Null, "SP2REQUESTER"),
             Body("is it safe?", Some(80000), "") }

\* response.data of a 2xx reply: with a score, and without one
Payloads ==
    { [ score |-> Some(80), riskLevel |-> "LOW" ],
      [ score |-> Null, riskLevel |-> "LOW" ] }

\* what a specialist call can end in: a 2xx reply carrying JSON data (a
\* payload, or null) after 1000 ms, a non-2xx status or network error after
\* 4000 ms, or the timeout
Replies ==
    { [ kind |-> "2xx", data |-> Some(p), elapsed |-> 1000 ] : p \in Payloads }
      \cup { [ kind |-> "2xx", data |-> Null, elapsed |-> 1000 ],
             [ kind |-> "error", data |-> Null, elapsed |-> 4000 ],
             [ kind |-> "timeout", data |-> Null, elapsed |-> callTimeout ] }

----------------------------------------------------------------------------
(* routes/orchestrator.ts *)

\* getPaidAxios(): the cached client, a new paid client when the private key
\* is set, and plain axios when creating it fails
getPaidAxios(cached, key) ==
    IF cached # "null" THEN [ client |-> cached, cache |-> cached ]
    ELSE IF key THEN [ client |-> "paid", cache |-> "paid" ]
    ELSE [ client |-> "axios", cache |-> "null" ]

\* !request.query || !request.budget || !request.requesterAddress
missingFields(body) ==
    \/ body.query = ""
    \/ IsNull(body.budget) \/ ValueOf(body.budget) = 0
    \/ body.requesterAddress = ""

\* faulty variant of minimumBudget: the price of the dearest specialist
minimumBudget_Dearest == initializeAgents["price-001"].basePrice

\* minimumBudget: 50000
minimumBudget == 50000

NoResponse == [ kind |-> "none" ]
ValidationError == [ kind |-> "validation", status |-> 400 ]
BudgetTooLow == [ kind |-> "budget-too-low", status |-> 400, minimumBudget |-> minimumBudget ]
AllAgentsFailed == [ kind |-> "all-agents-failed", status |-> 400 ]
InternalError == [ kind |-> "internal-error", status |-> 500 ]
PaymentRequired == [ kind |-> "payment-required", status |-> 402 ]

\* the per-bid task, at the moment its call is issued.  reply, updates and
\* order observe the task: the reply its call got, the updateAgentReputation
\* calls it made, and its rank among the tasks of its request in settling
NewTask(bid, endpoint, client) ==
    [ state |-> "inflight", bid |-> bid, endpoint |-> endpoint, client |-> client,
      reply |-> Null, result |-> Null, updates |-> <<>>, order |-> 0 ]

SettledCount(tasks) ==
    Cardinality({ i \in 1..Len(tasks) : tasks[i].state = "settled" })

\* client.post(...) throws on a non-2xx status, a network error or the timeout
postThrows(reply) == reply.kind # "2xx"

\* response.data.score throws a TypeError when response.data is null
readThrows(reply) == IsNull(reply.data)

\* faulty variant of agentResponse: the metadata of the payload is spread
\* after price, so the price is the one of the payload, which has none
agentResponse_MetadataLast(bid, reply, paidViaX402) ==
    [ agentId |-> bid.agentId, agentName |-> bid.agentName,
      score |-> ValueOf(reply.data).score,
      riskLevel |-> ValueOf(reply.data).riskLevel,
      price |-> Null, paidViaX402 |-> paidViaX402,
      executionTime |-> reply.elapsed ]

\* the AgentResponse built from a reply (the `return { ... } as AgentResponse`)
agentResponse(bid, reply, paidViaX402) ==
    [ agentId |-> bid.agentId, agentName |-> bid.agentName,
      score |-> ValueOf(reply.data).score,
      riskLevel |-> ValueOf(reply.data).riskLevel,
      price |-> Some(bid.price), paidViaX402 |-> paidViaX402,
      executionTime |-> reply.elapsed ]

\* the updateAgentReputation calls one task makes, in order: the try block
\* calls it with true after the post returned, the catch block with false
taskUpdates(reply) ==
    IF postThrows(reply) THEN << FALSE >>
    ELSE IF readThrows(reply) THEN << TRUE, FALSE >>
    ELSE << TRUE >>

\* what the task resolves to: the response, or null from the catch block
taskResult(bid, reply, paidViaX402) ==
    IF postThrows(reply) \/ readThrows(reply) THEN Null
    ELSE Some(agentResponse(bid, reply, paidViaX402))

RECURSIVE applyUpdates(_, _, _, _)
applyUpdates(ags, id, outcomes, elapsed) ==
    IF outcomes = <<>> THEN ags
    ELSE applyUpdates(updateAgentReputation(ags, id, Head(outcomes), elapsed),
                      id, Tail(outcomes), elapsed)

RECURSIVE recordUpdates(_, _, _, _)
recordUpdates(cs, id, outcomes, elapsed) ==
    IF outcomes = <<>> THEN cs
    ELSE recordUpdates(RecordCall(cs, id, Head(outcomes), elapsed),
                       id, Tail(outcomes), elapsed)

\* faulty variant of allSettled: the wait ends only when every task came back
\* with a response, so a request with a failed call waits for ever
allSettled_WithResponse(tasks) ==
    \A i \in 1..Len(tasks) : tasks[i].state = "settled" /\ ~IsNull(tasks[i].result)

\* faulty variant of allSettled: Promise.any, the first settled task ends the wait
allSettled_Any(tasks) == \E i \in 1..Len(tasks) : tasks[i].state = "settled"

\* Promise.all(agentPromises) resolves when every task has resolved
allSettled(tasks) == \A i \in 1..Len(tasks) : tasks[i].state = "settled"

\* faulty variant of successfulResponsesOf: results collected as the tasks settle
successfulResponsesOf_CompletionOrder(tasks) ==
    LET settledAs(k) == CHOOSE i \in 1..Len(tasks) : tasks[i].order = k
        results == [ k \in 1..Len(tasks) |-> tasks[settledAs(k)].result ]
        notNull(r) == ~IsNull(r)
        kept == SelectSeq(results, notNull)
    IN  [ i \in 1..Len(kept) |-> ValueOf(kept[i]) ]

\* results.filter(r => r !== null)
successfulResponsesOf(tasks) ==
    LET results == [ i \in 1..Len(tasks) |-> tasks[i].result ]
        notNull(r) == ~IsNull(r)
        kept == SelectSeq(results, notNull)
    IN  [ i \in 1..Len(kept) |-> ValueOf(kept[i]) ]

\* faulty variant of noneSucceeded: a single response counts as none
noneSucceeded_OffByOne(successfulResponses) == Len(successfulResponses) <= 1

\* successfulResponses.length === 0
noneSucceeded(successfulResponses) == Len(successfulResponses) = 0

\* const consensus = calculateConsensus(successfulResponses) and
\* res.json({ success: true, consensus, agentCount, availableAgents }); when
\* calculateConsensus throws, the catch block of the route answers 500
ConsensusReply(successfulResponses, bids, paidMode) ==
    IF noResponses(successfulResponses) THEN InternalError
    ELSE [ kind |-> "consensus", status |-> 200,
           consensus |-> calculateConsensus(successfulResponses),
           agentCount |-> Len(successfulResponses),
           availableAgents |-> Len(bids), paidMode |-> paidMode ]

NewRequest ==
    [ route |-> "none", pc |-> "idle", body |-> Body("", Null, ""),
      bids |-> <<>>, useRealPayments |-> FALSE, originalSetting |-> "unset",
      tasks |-> <<>>, response |-> NoResponse ]

\* the specialist calls of the requests so far: one per bid a request holds
RECURSIVE CallsIssued(_, _)
CallsIssued(rs, n) == IF n = 0 THEN 0 ELSE Len(rs[n].bids) + CallsIssued(rs, n - 1)

\* requests arrive in the order of their numbers
MayArrive(r) ==
    /\ reqs[r].pc = "idle"
    /\ IF r = 1 THEN TRUE ELSE reqs[r - 1].pc # "idle"

Respond(r, route, body, response) ==
    reqs' = [ reqs EXCEPT ![r] = [ @ EXCEPT !.route = route, !.pc = "done",
                                             !.body = body, !.response = response ] ]

\* POST /request up to `await Promise.all`: validation, bids, payment mode and
\* the start of every per-bid task.  In paid mode each task first awaits
\* getPaidAxios(); all tasks of the request get the same client from it.
Request(r) ==
    \E body \in Bodies :
        /\ MayArrive(r)
        /\ IF missingFields(body)
           THEN /\ Respond(r, "/request", body, ValidationError)
                /\ UNCHANGED paidAxios
           ELSE LET bids == getAgentBids(agents, ValueOf(body.budget))
                    useRealPayments == env = "true"
                    got == getPaidAxios(paidAxios, privateKey)
                    endpoint == IF useRealPayments THEN "/analyze" ELSE "/analyze-free"
                    client == IF useRealPayments THEN got.client ELSE "axios"
                IN  IF Len(bids) = 0
                    THEN /\ Respond(r, "/request", body, BudgetTooLow)
                         /\ UNCHANGED paidAxios
                    ELSE /\ CallsIssued(reqs, MaxRequests) + Len(bids) <= MaxCalls
                         /\ reqs' = [ reqs EXCEPT ![r] =
                                [ @ EXCEPT !.route = "/request", !.pc = "waiting",
                                           !.body = body, !.bids = bids,
                                           !.useRealPayments = useRealPayments,
                                           !.tasks = [ i \in 1..Len(bids) |->
                                                         NewTask(bids[i], endpoint, client) ] ] ]
                         /\ paidAxios' = IF useRealPayments THEN got.cache ELSE paidAxios
        /\ UNCHANGED <<agents, calls, lastCall, env, privateKey, paymentMw>>

\* one specialist call of request r ends: the rest of its per-bid task runs
AgentReply(r, i) ==
    \E reply \in Replies :
        LET task == reqs[r].tasks[i]
            outcomes == taskUpdates(reply)
        IN  /\ i \in 1..Len(reqs[r].tasks)
            /\ task.state = "inflight"
            /\ agents' = applyUpdates(agents, task.bid.agentId, outcomes, reply.elapsed)
            /\ calls' = recordUpdates(calls, task.bid.agentId, outcomes, reply.elapsed)
            /\ reqs' = [ reqs EXCEPT ![r].tasks[i] =
                   [ @ EXCEPT !.state = "settled", !.reply = Some(reply),
                              !.result = taskResult(task.bid, reply,
                                                    reqs[r].route = "/request-paid"
                                                      \/ reqs[r].useRealPayments),
                              !.updates = outcomes,
                              !.order = SettledCount(reqs[r].tasks) + 1 ] ]
            /\ UNCHANGED <<lastCall, env, privateKey, paidAxios, paymentMw>>

\* POST /request after `await Promise.all`: filter, then the error or the consensus
Join(r) ==
    LET successfulResponses == successfulResponsesOf(reqs[r].tasks) IN
    /\ reqs[r].route = "/request"
    /\ reqs[r].pc = "waiting"
    /\ allSettled(reqs[r].tasks)
    /\ reqs' = [ reqs EXCEPT ![r].pc = "done",
                             ![r].response =
                                 IF noneSucceeded(successfulResponses) THEN AllAgentsFailed
                                 ELSE ConsensusReply(successfulResponses, reqs[r].bids, FALSE) ]
    /\ UNCHANGED <<agents, calls, lastCall, env, privateKey, paidAxios, paymentMw>>

\* POST /request-paid up to the end of the payment middleware: the paywall
\* cannot be created (500), answers 402 itself, fails (500), or lets the
\* request through; the body is not read before the payment went through
PaidRequest(r) ==
    \E created \in BOOLEAN, paid \in { "paid", "unpaid", "error" } :
        /\ MayArrive(r)
        /\ IF paymentMw = "null" /\ ~created
           THEN /\ Respond(r, "/request-paid", reqs[r].body, InternalError)
                /\ UNCHANGED paymentMw
           ELSE /\ paymentMw' = "mw"
                /\ CASE paid = "unpaid" ->
                          Respond(r, "/request-paid", reqs[r].body, PaymentRequired)
                     [] paid = "error" ->
                          Respond(r, "/request-paid", reqs[r].body, InternalError)
                     [] paid = "paid" ->
                          reqs' = [ reqs EXCEPT ![r] =
                                     [ @ EXCEPT !.route = "/request-paid", !.pc = "paid" ] ]
        /\ UNCHANGED <<agents, calls, lastCall, env, privateKey, paidAxios>>

\* POST /request-paid from the validation to `await getPaidAxios()`
PaidValidate(r) ==
    \E body \in Bodies :
    /\ reqs[r].pc = "paid"
    /\ IF missingFields(body)
       THEN /\ reqs' = [ reqs EXCEPT ![r].pc = "done", ![r].body = body,
                                     ![r].response = ValidationError ]
            /\ UNCHANGED env
       ELSE LET bids == getAgentBids(agents, ValueOf(body.budget)) IN
            IF Len(bids) = 0
            THEN \* the flag is set to 'true' and restored within this run
                 /\ reqs' = [ reqs EXCEPT ![r].pc = "done", ![r].body = body,
                                          ![r].originalSetting = env,
                                          ![r].response = BudgetTooLow ]
                 /\ env' = IF env = "unset" THEN "undefined" ELSE env
            ELSE /\ CallsIssued(reqs, MaxRequests) + Len(bids) <= MaxCalls
                 /\ reqs' = [ reqs EXCEPT ![r].pc = "client", ![r].body = body,
                                          ![r].originalSetting = env,
                                          ![r].bids = bids ]
                 /\ env' = "true"
    /\ UNCHANGED <<agents, calls, lastCall, privateKey, paidAxios, paymentMw>>

\* POST /request-paid from the return of getPaidAxios() to `await Promise.all`
PaidDispatch(r) ==
    LET got == getPaidAxios(paidAxios, privateKey) IN
    /\ reqs[r].pc = "client"
    /\ paidAxios' = got.cache
    /\ reqs' = [ reqs EXCEPT ![r].pc = "waiting",
                             ![r].tasks = [ i \in 1..Len(reqs[r].bids) |->
                                              NewTask(reqs[r].bids[i], "/analyze", got.client) ] ]
    /\ UNCHANGED <<agents, calls, lastCall, env, privateKey, paymentMw>>

\* POST /request-paid after `await Promise.all`: restore the flag, filter, answer
PaidJoin(r) ==
    LET successfulResponses == successfulResponsesOf(reqs[r].tasks) IN
    /\ reqs[r].route = "/request-paid"
    /\ reqs[r].pc = "waiting"
    /\ allSettled(reqs[r].tasks)
    /\ env' = IF reqs[r].originalSetting = "unset" THEN "undefined"
              ELSE reqs[r].originalSetting
    /\ reqs' = [ reqs EXCEPT ![r].pc = "done",
                             ![r].response =
                                 IF noneSucceeded(successfulResponses) THEN AllAgentsFailed
                                 ELSE ConsensusReply(successfulResponses, reqs[r].bids, TRUE) ]
    /\ UNCHANGED <<agents, calls, lastCall, privateKey, paidAxios, paymentMw>>

----------------------------------------------------------------------------
(* Spec: the orchestrator serving requests *)

Init ==
    /\ agents = initializeAgents
    /\ calls = NoCalls
    /\ lastCall = NoCall
    /\ env \in { "unset", "true" }
    /\ privateKey \in BOOLEAN
    /\ paidAxios = "null"
    /\ paymentMw = "null"
    /\ reqs = [ r \in 1..MaxRequests |-> NewRequest ]

Next ==
    \/ \E r \in 1..MaxRequests : Request(r)
    \/ \E r \in 1..MaxRequests : \E i \in 1..Len(AgentOrder) : AgentReply(r, i)
    \/ \E r \in 1..MaxRequests : Join(r)
    \/ \E r \in 1..MaxRequests : PaidRequest(r)
    \/ \E r \in 1..MaxRequests : PaidValidate(r)
    \/ \E r \in 1..MaxRequests : PaidDispatch(r)
    \/ \E r \in 1..MaxRequests : PaidJoin(r)

Spec == Init /\ [][Next]_vars

----------------------------------------------------------------------------
(* LiveSpec: the orchestrator serving requests, where every issued call      *)
(* ends (client.post settles with its reply, an error or the timeout) and   *)
(* the event loop runs the rest of POST /request once Promise.all settles   *)

\* ENABLED <<AgentReply(r, i)>>_vars: call i of request r is in flight
CallPending(r, i) ==
    /\ i \in 1..Len(reqs[r].tasks)
    /\ reqs[r].tasks[i].state = "inflight"

\* ENABLED <<Join(r)>>_vars: every task of the /request has settled and the
\* handler has not run on yet
JoinReady(r) ==
    /\ reqs[r].route = "/request"
    /\ reqs[r].pc = "waiting"
    /\ allSettled(reqs[r].tasks)

\* WF_vars(AgentReply(r, i)) with its ENABLED written out: a call that
\* stays in flight ends
CallEnds(r, i) ==
    []<>(~CallPending(r, i)) \/ []<><<AgentReply(r, i)>>_vars

\* WF_vars(Join(r)) with its ENABLED written out: a handler whose
\* Promise.all has settled runs on
HandlerResumes(r) ==
    []<>(~JoinReady(r)) \/ []<><<Join(r)>>_vars

Fairness ==
    /\ \A r \in 1..MaxRequests : \A i \in 1..Len(AgentOrder) : CallEnds(r, i)
    /\ \A r \in 1..MaxRequests : HandlerResumes(r)

LiveSpec == Init /\ [][Next]_vars /\ Fairness

----------------------------------------------------------------------------
(* RegistrySpec: the registry driven directly through its public methods *)

RegistryInit ==
    /\ agents = initializeAgents
    /\ calls = NoCalls
    /\ lastCall = NoCall
    /\ env = "unset"
    /\ privateKey = FALSE
    /\ paidAxios = "null"
    /\ paymentMw = "null"
    /\ reqs = [ r \in 1..MaxRequests |-> NewRequest ]

UpdateAgentReputationCall ==
    \E id \in AgentIds \cup {UnknownId}, success \in BOOLEAN, t \in ResponseTimes :
        /\ TotalCalls(calls) < MaxUpdates
        /\ agents' = updateAgentReputation(agents, id, success, t)
        /\ calls' = RecordCall(calls, id, success, t)
        /\ lastCall' = [ op |-> "updateAgentReputation", id |-> id ]
        /\ UNCHANGED dispatchVars

GetAgentBidsCall ==
    \E budget \in Budgets :
        /\ lastCall' = [ op |-> "getAgentBids", budget |-> budget,
                         result |-> getAgentBids(agents, budget) ]
        /\ UNCHANGED <<agents, calls>>
        /\ UNCHANGED dispatchVars

GetAllActiveAgentsCall ==
    /\ lastCall' = [ op |-> "getAllActiveAgents",
                     result |-> getAllActiveAgents(agents) ]
    /\ UNCHANGED <<agents, calls>>
    /\ UNCHANGED dispatchVars

GetAgentByIdCall ==
    \E id \in AgentIds \cup {UnknownId} :
        /\ lastCall' = [ op |-> "getAgentById", id |-> id,
                         result |-> IF id \in DOMAIN agents
                                    THEN Some(getAgentById(agents, id)) ELSE Null ]
        /\ UNCHANGED <<agents, calls>>
        /\ UNCHANGED dispatchVars

RegistryNext ==
    \/ UpdateAgentReputationCall
    \/ GetAgentBidsCall
    \/ GetAllActiveAgentsCall
    \/ GetAgentByIdCall

RegistrySpec == RegistryInit /\ [][RegistryNext]_vars

----------------------------------------------------------------------------
(* ConsensusSpec: calculateConsensus called directly on a list of responses *)

ConsensusInit == RegistryInit

\* one call of calculateConsensus(responses): it throws on the empty list and
\* returns the result otherwise; it reads and writes nothing but its argument
CalculateConsensusCall ==
    /\ lastCall = NoCall
    /\ \E responses \in ResponseLists :
          lastCall' = [ op |-> "calculateConsensus", responses |-> responses,
                        threw |-> noResponses(responses),
                        result |-> IF noResponses(responses) THEN Null
                                   ELSE Some(calculateConsensus(responses)) ]
    /\ UNCHANGED <<agents, calls>>
    /\ UNCHANGED dispatchVars

ConsensusNext == CalculateConsensusCall

ConsensusSpec == ConsensusInit /\ [][ConsensusNext]_vars

----------------------------------------------------------------------------
(* CalculatorSpec: calculateConsensus as the routes call it while serving    *)
(* requests, and as called directly on a list of responses                  *)

\* a call made directly, before any request has arrived
DirectCalculatorCall ==
    /\ \A r \in 1..MaxRequests : reqs[r].pc = "idle"
    /\ env = "unset"
    /\ privateKey = FALSE
    /\ CalculateConsensusCall

\* the requests served when no direct call was made
RoutesCalculatorCall ==
    /\ lastCall = NoCall
    /\ Next

CalculatorNext ==
    \/ DirectCalculatorCall
    \/ RoutesCalculatorCall

CalculatorSpec == Init /\ [][CalculatorNext]_vars

----------------------------------------------------------------------------
(* Properties *)

Requests == 1..MaxRequests

Settled(task) == task.state = "settled"

\* the call got a 2xx reply whose data the task could read
CallSucceeded(task) ==
    /\ Settled(task)
    /\ ValueOf(task.reply).kind = "2xx"
    /\ ~IsNull(ValueOf(task.reply).data)

\* the call failed: non-2xx status, network error or timeout
CallFailed(task) ==
    /\ Settled(task)
    /\ ValueOf(task.reply).kind \in { "error", "timeout" }

SucceededCalls(r) ==
    { i \in 1..Len(reqs[r].tasks) : CallSucceeded(reqs[r].tasks[i]) }

\* the request passed the validation and got a non-empty bid list
Dispatched(r) == Len(reqs[r].bids) > 0

Sent(r) == reqs[r].response.kind # "none"

\* C1: a dispatched request ends in the consensus result exactly when at least
\* one of its specialist calls succeeded, and in the 'all agents failed' error
\* when none did; failed calls never turn into another outcome of the request
C1_ConsensusIffOneSucceeded ==
    \A r \in Requests :
        (Dispatched(r) /\ Sent(r)) =>
            /\ reqs[r].response.kind \in { "consensus", "all-agents-failed" }
            /\ reqs[r].response.kind = "consensus" <=> SucceededCalls(r) # {}
            /\ reqs[r].response.kind = "all-agents-failed" <=> SucceededCalls(r) = {}

\* C1 witness: a consensus result was returned although a call of the request
\* failed and another one timed out
C1_Witness ==
    \E r \in Requests :
        /\ reqs[r].response.kind = "consensus"
        /\ \E i, j \in 1..Len(reqs[r].tasks) :
              /\ ValueOf(reqs[r].tasks[i].reply).kind = "error"
              /\ ValueOf(reqs[r].tasks[j].reply).kind = "timeout"

\* the settled tasks that called specialist id
SettledCallsTo(id) ==
    { <<r, i>> \in Requests \X (1..Len(AgentOrder)) :
        /\ i <= Len(reqs[r].tasks)
        /\ Settled(reqs[r].tasks[i])
        /\ reqs[r].tasks[i].bid.agentId = id }

\* C2: every completed specialist call made exactly one updateAgentReputation
\* call, with success = true exactly when its response is among the
\* successful responses; so the registry was updated once per completed call
C2_ExactlyOneUpdatePerCall ==
    /\ \A r \in Requests : \A i \in 1..Len(reqs[r].tasks) :
          Settled(reqs[r].tasks[i]) =>
              /\ Len(reqs[r].tasks[i].updates) = 1
              /\ reqs[r].tasks[i].updates[1] = ~IsNull(reqs[r].tasks[i].result)
    /\ \A id \in AgentIds :
          /\ calls[id].n = Cardinality(SettledCallsTo(id))
          /\ agents[id].totalTasks = Cardinality(SettledCallsTo(id))

AllTasks == { <<r, i>> \in Requests \X (1..Len(AgentOrder)) : i <= Len(reqs[r].tasks) }

\* C3, in every state: a response is out only when no call of the request is in flight
C3_NothingInFlightWhenSent ==
    \A r \in Requests :
        Sent(r) =>
            /\ Dispatched(r) => Len(reqs[r].tasks) = Len(reqs[r].bids)
            /\ \A i \in 1..Len(reqs[r].tasks) : Settled(reqs[r].tasks[i])

\* C3, in every step: no task is dropped, a settled task keeps its result, and
\* at most one call ends, so the end of one call never ends another
C3_CallsAreIndependent ==
    /\ \A k \in AllTasks :
          /\ k[2] <= Len(reqs'[k[1]].tasks)
          /\ Settled(reqs[k[1]].tasks[k[2]]) =>
                 reqs'[k[1]].tasks[k[2]] = reqs[k[1]].tasks[k[2]]
    /\ Cardinality({ k \in AllTasks :
                        reqs'[k[1]].tasks[k[2]] # reqs[k[1]].tasks[k[2]] }) <= 1

\* C3: the dispatcher answers only after every issued call has completed or
\* timed out, and one call's failure or timeout never cancels another call
C3_JoinWaitsForAll ==
    [] C3_NothingInFlightWhenSent /\ [][C3_CallsAreIndependent]_vars

\* C3 witness: a request with three calls has answered; one call timed out and
\* the two others are counted in the result
C3_Witness ==
    \E r \in Requests :
        /\ Sent(r)
        /\ Len(reqs[r].tasks) = 3
        /\ \E i \in 1..3 : ValueOf(reqs[r].tasks[i].reply).kind = "timeout"
        /\ reqs[r].response.kind = "consensus"
        /\ reqs[r].response.agentCount = 2

\* the k-th succeeded call of request r, counted in bid order
KthSucceeded(r, k) ==
    CHOOSE i \in SucceededCalls(r) :
        Cardinality({ j \in SucceededCalls(r) : j <= i }) = k

\* C4: the responses of a result are the succeeded calls in bid order,
\* agentCount is their number and availableAgents the number of bids
C4_ResponsesInBidOrder ==
    \A r \in Requests :
        reqs[r].response.kind = "consensus" =>
            LET out == reqs[r].response
                responses == out.consensus.responses
            IN  /\ Len(responses) = Cardinality(SucceededCalls(r))
                /\ \A k \in 1..Len(responses) :
                      /\ responses[k].agentId = reqs[r].bids[KthSucceeded(r, k)].agentId
                      /\ Some(responses[k]) = reqs[r].tasks[KthSucceeded(r, k)].result
                /\ out.agentCount = Len(responses)
                /\ out.availableAgents = Len(reqs[r].bids)
                /\ 1 <= out.agentCount
                /\ out.agentCount <= out.availableAgents

\* C4 witness: a result with two responses whose calls ended in the reverse
\* of the order they were issued in, after the first call of the request failed
C4_Witness ==
    \E r \in Requests :
        /\ reqs[r].response.kind = "consensus"
        /\ Len(reqs[r].tasks) = 3
        /\ CallFailed(reqs[r].tasks[1])
        /\ SucceededCalls(r) = { 2, 3 }
        /\ reqs[r].tasks[3].order < reqs[r].tasks[2].order
        /\ reqs[r].tasks[2].order < reqs[r].tasks[1].order

\* the request got as far as the validation of its body
Validated(r) ==
    /\ reqs[r].pc \notin { "idle", "paid" }
    /\ reqs[r].response.kind \notin { "internal-error", "payment-required" }

\* the body lacks a query, a requester identity or a positive budget
InvalidBody(body) ==
    \/ body.query = ""
    \/ IsNull(body.budget)
    \/ ValueOf(body.budget) <= 0
    \/ body.requesterAddress = ""

\* C5: a request without query, without requester identity or without a
\* positive budget ends in the validation error and issues no specialist call
C5_InvalidRequestIsValidationError ==
    \A r \in Requests :
        (Validated(r) /\ InvalidBody(reqs[r].body)) =>
            /\ reqs[r].response.kind = "validation"
            /\ reqs[r].bids = <<>>
            /\ reqs[r].tasks = <<>>

\* the lowest basePrice among the registered active specialists
LowestActivePrice(ags) ==
    LET prices == { ags[id].basePrice : id \in { a \in AgentIds : ags[a].active } }
    IN  CHOOSE p \in prices : \A q \in prices : p <= q

\* C6, in every state: the 'budget too low' error goes to exactly the valid
\* requests whose budget is below every active price, reports the lowest
\* active price and comes without any specialist call
C6_BudgetTooLowState ==
    \A r \in Requests :
        /\ reqs[r].response.kind = "budget-too-low" =>
              /\ getAgentBids(agents, ValueOf(reqs[r].body.budget)) = <<>>
              /\ reqs[r].tasks = <<>>
              /\ reqs[r].response.minimumBudget = LowestActivePrice(agents)
        /\ ( /\ Validated(r)
             /\ ~missingFields(reqs[r].body)
             /\ ValueOf(reqs[r].body.budget) < LowestActivePrice(agents) ) =>
              reqs[r].response.kind = "budget-too-low"

\* C6, in every step: answering 'budget too low' updates no reputation
C6_BudgetTooLowStep ==
    \A r \in Requests :
        (reqs[r].response.kind = "none" /\ reqs'[r].response.kind = "budget-too-low") =>
            (agents' = agents /\ calls' = calls)

\* C6: with no bids the request fails with 'budget too low', calls no
\* specialist, updates no reputation and reports the lowest active basePrice
C6_BudgetTooLow ==
    [] C6_BudgetTooLowState /\ [][C6_BudgetTooLowStep]_vars

\* C6 witness: a request with a positive budget below every price got the
\* error after reputations had changed
C6_Witness ==
    \E r \in Requests :
        /\ reqs[r].response.kind = "budget-too-low"
        /\ ValueOf(reqs[r].body.budget) = 49999
        /\ \E id \in AgentIds : agents[id].totalTasks > 0

\* position of a specialist in the registration order
RegistrationIndex(id) == CHOOSE i \in 1..Len(AgentOrder) : AgentOrder[i] = id

\* C7: getAgentBids(budget) returns exactly one bid for every active
\* specialist with basePrice <= budget and none for the others, each bid
\* carrying the specialist's basePrice, reputation and averageResponseTime;
\* below every price the list is empty
C7_BidsAreTheAffordableSpecialists ==
    lastCall.op = "getAgentBids" =>
        LET bids == lastCall.result
            budget == lastCall.budget
            bidsOf(id) == { i \in 1..Len(bids) : bids[i].agentId = id }
        IN  /\ \A id \in AgentIds :
                  Cardinality(bidsOf(id)) =
                      IF agents[id].active /\ agents[id].basePrice <= budget THEN 1 ELSE 0
            /\ \A i \in 1..Len(bids) :
                  /\ bids[i].agentId \in AgentIds
                  /\ bids[i].price = agents[bids[i].agentId].basePrice
                  /\ bids[i].confidence = agents[bids[i].agentId].reputation
                  /\ bids[i].estimatedTime = agents[bids[i].agentId].averageResponseTime
            /\ (\A id \in AgentIds : budget < agents[id].basePrice) => bids = <<>>

\* C7 witness: after a reputation update, a budget equal to the price of two
\* specialists got the three bids it affords
C7_Witness ==
    /\ lastCall.op = "getAgentBids"
    /\ lastCall.budget = 80000
    /\ Len(lastCall.result) = 3
    /\ \E id \in AgentIds : agents[id].totalTasks > 0

\* C8: the bids are in non-increasing order of confidence and bids of equal
\* confidence are in registration order
C8_BidsSortedStable ==
    lastCall.op = "getAgentBids" =>
        LET bids == lastCall.result IN
        \A i, j \in 1..Len(bids) :
            i < j =>
                /\ bids[i].confidence >= bids[j].confidence
                /\ bids[i].confidence = bids[j].confidence =>
                       RegistrationIndex(bids[i].agentId) < RegistrationIndex(bids[j].agentId)

\* C8 witness: a bid list holding two bids of equal confidence next to a bid
\* of another confidence, after reputation updates
C8_Witness ==
    /\ lastCall.op = "getAgentBids"
    /\ \E i, j, k \in 1..Len(lastCall.result) :
          /\ i # j
          /\ lastCall.result[i].confidence = lastCall.result[j].confidence
          /\ lastCall.result[k].confidence # lastCall.result[i].confidence
          /\ agents[lastCall.result[i].agentId].totalTasks > 0
          /\ agents[lastCall.result[j].agentId].totalTasks > 0

\* C9: after n >= 1 updates of a specialist totalTasks = n and successRate is
\* exactly (number of successful updates) / n
C9_SuccessRateIsRunningMean ==
    \A id \in AgentIds :
        /\ agents[id].totalTasks = calls[id].n
        /\ calls[id].n >= 1 =>
              /\ agents[id].successRate.num * calls[id].n
                     = calls[id].ok * agents[id].successRate.den
              /\ calls[id].ok = calls[id].n => agents[id].successRate = Rat(1, 1)

\* C9 witness: a specialist after three updates, two of them successful
C9_Witness ==
    \E id \in AgentIds : calls[id].n = 3 /\ calls[id].ok = 2

\* C10: reputation is always an integer in 0..100, and once a specialist was
\* updated it is successRate * 100 rounded to the nearest integer
C10_ReputationIsRoundedRate ==
    \A id \in AgentIds :
        LET rate == agents[id].successRate
            reputation == agents[id].reputation
        IN  /\ reputation \in 0..100
            /\ agents[id].totalTasks >= 1 =>
                  /\ (2 * reputation - 1) * rate.den <= 200 * rate.num
                  /\ 200 * rate.num < (2 * reputation + 1) * rate.den

\* C10 witness: an update just left a specialist with successRate 2/3, which
\* is not a whole percentage
C10_Witness ==
    /\ lastCall.op = "updateAgentReputation"
    /\ lastCall.id \in AgentIds
    /\ agents[lastCall.id].successRate = Rat(2, 3)

\* C11, in every state: once a specialist was updated n >= 1 times its
\* averageResponseTime is the arithmetic mean of the n reported times
C11_AverageIsMeanOfTimesState ==
    \A id \in AgentIds :
        calls[id].n >= 1 =>
            agents[id].averageResponseTime = Rat(calls[id].time, calls[id].n)

\* C11, in every step: an update of a specialist with response time t sets
\* averageResponseTime to (old * (totalTasks - 1) + t) / totalTasks, where
\* totalTasks is the incremented count
C11_AverageIsMeanOfTimesStep ==
    \A id \in AgentIds :
        calls'[id].n = calls[id].n + 1 =>
            LET old == agents[id].averageResponseTime
                new == agents'[id].averageResponseTime
                totalTasks == agents'[id].totalTasks
                t == calls'[id].time - calls[id].time
            IN  /\ totalTasks = agents[id].totalTasks + 1
                /\ new.num * old.den * totalTasks
                       = (old.num * (totalTasks - 1) + t * old.den) * new.den

\* C11: every update sets averageResponseTime to
\* (old * (totalTasks - 1) + t) / totalTasks with totalTasks already
\* incremented, so after n >= 1 updates it is the mean of the n reported times
C11_AverageIsMeanOfTimes ==
    [] C11_AverageIsMeanOfTimesState /\ [][C11_AverageIsMeanOfTimesStep]_vars

\* C11 witness: a specialist after three updates with the times 1000, 1000
\* and 4000, whose average is 2000
C11_Witness ==
    \E id \in AgentIds :
        /\ calls[id].n = 3
        /\ calls[id].time = 6000
        /\ agents[id].averageResponseTime = Rat(2000, 1)

\* C12, in every state: the registry holds the five registered records only
C12_NoRecordAddedState == DOMAIN agents = AgentIds

\* C12, in every step: a call with the unknown id returns and leaves every
\* record as it was
C12_UnknownIdStep ==
    calls'[UnknownId].n > calls[UnknownId].n =>
        /\ agents' = agents
        /\ lastCall' = [ op |-> "updateAgentReputation", id |-> UnknownId ]

\* C12: updateAgentReputation with an id that is not registered returns
\* without throwing, changes no field of any record and adds no record
C12_UnknownIdIsNoOp ==
    [] C12_NoRecordAddedState /\ [][C12_UnknownIdStep]_vars

\* C12 witness: the last call had the unknown id, made after an update of a
\* registered specialist and after an earlier call with the unknown id
C12_Witness ==
    /\ lastCall.op = "updateAgentReputation"
    /\ lastCall.id = UnknownId
    /\ calls[UnknownId].n = 2
    /\ \E id \in AgentIds : agents[id].totalTasks = 1

\* the calls to specialist id that are still in flight
InFlightCallsTo(id) ==
    { k \in AllTasks :
        /\ ~Settled(reqs[k[1]].tasks[k[2]])
        /\ reqs[k[1]].tasks[k[2]].bid.agentId = id }

\* the completed calls to specialist id whose response is a successful one
SucceededCallsTo(id) ==
    { k \in SettledCallsTo(id) : ~IsNull(reqs[k[1]].tasks[k[2]].result) }

\* the four fields of the record are those of one and the same number of updates
WholeUpdatesOnly(id) ==
    /\ agents[id].totalTasks = calls[id].n
    /\ calls[id].n >= 1 =>
          /\ agents[id].successRate = Rat(calls[id].ok, calls[id].n)
          /\ agents[id].reputation = reputationOf(agents[id].successRate)
          /\ agents[id].averageResponseTime = Rat(calls[id].time, calls[id].n)

\* C13: under every interleaving of the requests and of their calls no update
\* of a specialist is lost or half applied: no state shows a record with only
\* some of its four fields updated, and once no call to the specialist is in
\* flight its totalTasks is the number of completed calls to it and its
\* successRate the fraction of them that succeeded
C13_UpdatesAreAtomic ==
    \A id \in AgentIds :
        /\ WholeUpdatesOnly(id)
        /\ InFlightCallsTo(id) = {} =>
              LET completed == Cardinality(SettledCallsTo(id))
                  succeeded == Cardinality(SucceededCallsTo(id))
              IN  /\ agents[id].totalTasks = completed
                  /\ completed >= 1 =>
                        agents[id].successRate = Rat(succeeded, completed)

\* the call got a 2xx reply whose payload carries no score
RepliedWithoutScore(task) ==
    /\ CallSucceeded(task)
    /\ IsNull(ValueOf(ValueOf(task.reply).data).score)

\* C14: a 2xx reply whose payload has no score is a failure of the
\* specialist: its task yields no response, its one reputation update is a
\* failed one, and every response of a consensus result has a numeric score
C14_MissingScoreIsFailure ==
    \A r \in Requests :
        /\ \A i \in 1..Len(reqs[r].tasks) :
              RepliedWithoutScore(reqs[r].tasks[i]) =>
                  /\ IsNull(reqs[r].tasks[i].result)
                  /\ reqs[r].tasks[i].updates = << FALSE >>
        /\ reqs[r].response.kind = "consensus" =>
              \A k \in 1..Len(reqs[r].response.consensus.responses) :
                  ~IsNull(reqs[r].response.consensus.responses[k].score)

\* the last call was calculateConsensus and it returned a result
Calculated == lastCall.op = "calculateConsensus" /\ ~lastCall.threw

ResultOfCall == ValueOf(lastCall.result)

ScoresOfCall ==
    [ i \in 1..Len(lastCall.responses) |-> ValueOf(lastCall.responses[i].score) ]

\* number of responses of the call with the given riskLevel
RiskCount(level) ==
    Cardinality({ i \in 1..Len(lastCall.responses) :
                    lastCall.responses[i].riskLevel = level })

\* C15: for every non-empty list of responses calculateConsensus returns
\* 0 <= consensusStrength <= 1 and 0 <= confidence <= 100
C15_StrengthAndConfidenceInRange ==
    Calculated =>
        LET strength == ValueOf(ResultOfCall.consensusStrength)
            confidence == ValueOf(ResultOfCall.confidence)
        IN  /\ 0 <= strength.num
            /\ strength.num <= strength.den
            /\ 0 <= confidence
            /\ confidence <= 100

\* C15 witness: a result for five responses whose scores 0 and 200 have a
\* variance above maxVariance
C15_Witness ==
    /\ Calculated
    /\ Len(lastCall.responses) = 5
    /\ \E i, j \in 1..5 : ScoresOfCall[i] = 0 /\ ScoresOfCall[j] = 200
    /\ ResultOfCall.consensusStrength = Some(Rat(0, 1))

PopulationVariance(scores) ==
    LET n == Len(scores)
        total == SumOver(scores, n)
        squares == SumOver([ i \in 1..n |-> scores[i] * scores[i] ], n)
    IN  Rat(n * squares - total * total, n * n)

\* C17: consensusStrength is max(0, 1 - V / 2500), rounded to two decimals,
\* for the population variance V of the scores; V >= 2500 gives
\* consensusStrength 0 and confidence 0; the scores [0,100,0,100] have mean
\* 50 and V = 2500
C17_PopulationVariance ==
    Calculated =>
        LET V == PopulationVariance(ScoresOfCall)
            slack == 2500 * V.den - V.num
            expected == IF slack <= 0 THEN Rat(0, 1)
                        ELSE Rat(MathRound(100 * slack, 2500 * V.den), 100)
        IN  /\ ResultOfCall.consensusStrength = Some(expected)
            /\ V.num >= 2500 * V.den =>
                  /\ ResultOfCall.consensusStrength = Some(Rat(0, 1))
                  /\ ResultOfCall.confidence = Some(0)
            /\ ScoresOfCall = << 0, 100, 0, 100 >> =>
                  /\ ResultOfCall.averageScore = Some(50)
                  /\ V = Rat(2500, 1)

\* C17 witness: the result for the scores [0,100,0,100]
C17_Witness ==
    /\ Calculated
    /\ ScoresOfCall = << 0, 100, 0, 100 >>
    /\ ResultOfCall.confidence = Some(0)

\* C18: with at least one CRITICAL response the recommendation is
\* 'CRITICAL RISK - AVOID COMPLETELY', whatever the average score and the
\* riskLevel of the other responses
C18_CriticalOverrides ==
    (Calculated /\ RiskCount("CRITICAL") >= 1) =>
        ResultOfCall.recommendation = "CRITICAL RISK - AVOID COMPLETELY"

\* C18 witness: one CRITICAL response among five with averageScore 100, three
\* of the others HIGH
C18_Witness ==
    /\ Calculated
    /\ Len(lastCall.responses) = 5
    /\ RiskCount("CRITICAL") = 1
    /\ RiskCount("HIGH") = 3
    /\ ResultOfCall.averageScore = Some(100)
    /\ ResultOfCall.recommendation = "CRITICAL RISK - AVOID COMPLETELY"

\* C19: without a CRITICAL response, HIGH on at least half of the responses
\* gives 'HIGH RISK - DO NOT RECOMMEND' whatever the average score; HIGH on
\* fewer than half never gives it
C19_HighMajority ==
    Calculated =>
        LET N == Len(lastCall.responses)
        IN  /\ (RiskCount("CRITICAL") = 0 /\ 2 * RiskCount("HIGH") >= N) =>
                  ResultOfCall.recommendation = "HIGH RISK - DO NOT RECOMMEND"
            /\ 2 * RiskCount("HIGH") < N =>
                  ResultOfCall.recommendation # "HIGH RISK - DO NOT RECOMMEND"

\* C19 witness: exactly two of four responses are HIGH, none is CRITICAL and
\* the averageScore is 100
C19_Witness ==
    /\ Calculated
    /\ Len(lastCall.responses) = 4
    /\ RiskCount("CRITICAL") = 0
    /\ RiskCount("HIGH") = 2
    /\ ResultOfCall.averageScore = Some(100)
    /\ ResultOfCall.recommendation = "HIGH RISK - DO NOT RECOMMEND"

\* C20: without a CRITICAL response and with HIGH on fewer than half, the
\* recommendation is the one of the returned averageScore: >= 80 LOW RISK,
\* >= 60 MEDIUM RISK, >= 40 HIGH RISK, below that CRITICAL RISK
C20_RecommendationOfReturnedAverage ==
    ( /\ Calculated
      /\ RiskCount("CRITICAL") = 0
      /\ 2 * RiskCount("HIGH") < Len(lastCall.responses) ) =>
        LET averageScore == ValueOf(ResultOfCall.averageScore)
        IN  ResultOfCall.recommendation =
                IF averageScore >= 80 THEN "LOW RISK - APPEARS SAFE"
                ELSE IF averageScore >= 60 THEN "MEDIUM RISK - EXERCISE CAUTION"
                ELSE IF averageScore >= 40 THEN "HIGH RISK - NOT RECOMMENDED"
                ELSE "CRITICAL RISK - AVOID COMPLETELY"

\* the bid prices of the succeeded calls of request r, 0 for the other calls
SucceededPrices(r) ==
    [ i \in 1..Len(reqs[r].bids) |->
        IF i \in SucceededCalls(r) THEN reqs[r].bids[i].price ELSE 0 ]

\* C21: totalCost is the sum of metadata.price over the responses, a response
\* without a price counting 0; in a result of a request it is the sum of the
\* bid prices of the calls that succeeded, failed calls adding nothing
C21_TotalCostIsSumOfPrices ==
    /\ Calculated =>
          LET listed == lastCall.responses
              prices == [ i \in 1..Len(listed) |->
                            IF IsNull(listed[i].price) THEN 0
                            ELSE ValueOf(listed[i].price) ]
          IN  ResultOfCall.totalCost = SumOver(prices, Len(listed))
    /\ \A r \in Requests :
          reqs[r].response.kind = "consensus" =>
              /\ \A k \in 1..Len(reqs[r].response.consensus.responses) :
                    reqs[r].response.consensus.responses[k].price
                        = Some(reqs[r].bids[KthSucceeded(r, k)].price)
              /\ reqs[r].response.consensus.totalCost
                     = SumOver(SucceededPrices(r), Len(reqs[r].bids))

\* C21 witness: a result of a request with three bids whose first call
\* failed: the two others cost 80000 + 50000
C21_Witness ==
    \E r \in Requests :
        /\ reqs[r].response.kind = "consensus"
        /\ Len(reqs[r].bids) = 3
        /\ CallFailed(reqs[r].tasks[1])
        /\ SucceededCalls(r) = { 2, 3 }
        /\ reqs[r].response.consensus.totalCost = 130000

\* C22: calculateConsensus on the empty list throws and returns no result,
\* and no request calls it with an empty list: a request whose calls all
\* failed gets the 'all agents failed' error, never the error of the throw,
\* and every result has at least one response
C22_EmptyListFailsFast ==
    /\ (lastCall.op = "calculateConsensus" /\ lastCall.responses = <<>>) =>
          (lastCall.threw /\ IsNull(lastCall.result))
    /\ (lastCall.op = "calculateConsensus" /\ lastCall.threw) =>
          lastCall.responses = <<>>
    /\ \A r \in Requests :
          /\ (Dispatched(r) /\ Sent(r)) => reqs[r].response.kind # "internal-error"
          /\ reqs[r].response.kind = "consensus" =>
                Len(reqs[r].response.consensus.responses) >= 1

\* C22 witness: the direct call on the empty list threw
C22_Witness ==
    /\ lastCall.op = "calculateConsensus"
    /\ lastCall.responses = <<>>
    /\ lastCall.threw

\* the list s with its elements i and i + 1 exchanged
Swapped(s, i) ==
    [ k \in 1..Len(s) |-> IF k = i THEN s[i + 1] ELSE IF k = i + 1 THEN s[i] ELSE s[k] ]

\* two results agree in everything but the echoed list
SameConsensus(a, b) ==
    /\ a.averageScore = b.averageScore
    /\ a.consensusStrength = b.consensusStrength
    /\ a.recommendation = b.recommendation
    /\ a.confidence = b.confidence
    /\ a.totalCost = b.totalCost

\* C23: calculateConsensus returns the same averageScore, consensusStrength,
\* recommendation, confidence and totalCost for a list and for the list with
\* two neighbours exchanged, and echoes the list in the order given.  Every
\* list is explored and every permutation is a sequence of such exchanges,
\* so the result is the same for all permutations of a list
C23_OrderIndependent ==
    Calculated =>
        /\ ResultOfCall.responses = lastCall.responses
        /\ \A i \in 1..(Len(lastCall.responses) - 1) :
              LET swapped == calculateConsensus(Swapped(lastCall.responses, i))
              IN  /\ SameConsensus(ResultOfCall, swapped)
                  /\ swapped.responses = Swapped(lastCall.responses, i)

\* C23 witness: a result for five responses with a CRITICAL response of score
\* 0 last and LOW responses of score 100 before it
C23_Witness ==
    /\ Calculated
    /\ Len(lastCall.responses) = 5
    /\ lastCall.responses[5].riskLevel = "CRITICAL"
    /\ ScoresOfCall[5] = 0
    /\ \A i \in 1..4 : lastCall.responses[i].riskLevel = "LOW" /\ ScoresOfCall[i] = 100
    /\ ResultOfCall.recommendation = "CRITICAL RISK - AVOID COMPLETELY"

\* request r runs in paid mode: it is a /request-paid that got its bids, or a
\* /request that read the flag as 'true'
PaidMode(r) ==
    \/ reqs[r].route = "/request-paid" /\ Dispatched(r)
    \/ reqs[r].route = "/request" /\ reqs[r].useRealPayments

\* C24: a request in paid mode whose payment client cannot be created (no
\* private key) ends in an error without any specialist being called with
\* the unpaid client, and no result holds a response got without payment
C24_NoPaidModeWithoutPaymentClient ==
    \A r \in Requests :
        (PaidMode(r) /\ ~privateKey) =>
            /\ \A i \in 1..Len(reqs[r].tasks) : reqs[r].tasks[i].client # "axios"
            /\ reqs[r].response.kind # "consensus"

\* the fields of a record that updateAgentReputation does not write
FixedFields(agent) ==
    [ id |-> agent.id, name |-> agent.name, endpoint |-> agent.endpoint,
      basePrice |-> agent.basePrice, active |-> agent.active ]

\* C25, in every state: no record was added or removed since construction,
\* and every record has the id, name, endpoint, basePrice and active flag it
\* was constructed with
C25_RecordsKeepFixedFields ==
    /\ DOMAIN agents = AgentIds
    /\ \A id \in AgentIds : FixedFields(agents[id]) = FixedFields(initializeAgents[id])

\* C25, in every step: getAllActiveAgents, getAgentById and getAgentBids
\* change no record; updateAgentReputation on a registered id changes no
\* other record and none of the fixed fields of that one
C25_FrameStep ==
    /\ lastCall'.op \in { "getAllActiveAgents", "getAgentById", "getAgentBids" } =>
          agents' = agents
    /\ \A id \in AgentIds :
          (lastCall'.op = "updateAgentReputation" /\ lastCall'.id = id) =>
              /\ \A other \in AgentIds \ {id} : agents'[other] = agents[other]
              /\ FixedFields(agents'[id]) = FixedFields(agents[id])
              /\ agents'[id].totalTasks = agents[id].totalTasks + 1

\* C25: the registry is changed by updateAgentReputation only, which writes
\* totalTasks, successRate, reputation and averageResponseTime of the one
\* record; no record is ever added or removed
C25_RegistryFrame ==
    [] C25_RecordsKeepFixedFields /\ [][C25_FrameStep]_vars

\* C25 witness: getAgentById returned the record of a specialist that two
\* failed updates had brought to reputation 0, another specialist having
\* been updated as well
C25_Witness ==
    /\ lastCall.op = "getAgentById"
    /\ lastCall.id \in AgentIds
    /\ ValueOf(lastCall.result).reputation = 0
    /\ ValueOf(lastCall.result).totalTasks = 2
    /\ \E other \in AgentIds \ {lastCall.id} : agents[other].totalTasks = 1

\* /request-paid r has run lines 226-227: it holds the flag it found
Captured(r) ==
    /\ reqs[r].route = "/request-paid"
    /\ \/ reqs[r].pc \in { "client", "waiting" }
       \/ reqs[r].pc = "done" /\ reqs[r].response.kind \in
              { "budget-too-low", "all-agents-failed", "consensus" }

\* the process was started with paid mode off.  Nothing sets the flag back
\* to unset, so an unset flag, the string 'undefined' (an unset flag
\* restored), or a /request-paid that found the flag unset all tell it
StartedOff ==
    \/ env \in { "unset", "undefined" }
    \/ \E r \in Requests : Captured(r) /\ reqs[r].originalSetting = "unset"

\* C26: in a process started with paid mode off no /request runs in paid
\* mode: none of its calls uses the paid client or the /analyze endpoint,
\* whatever /request-paid calls run at the same time
C26_RequestModeIsTheConfiguredOne ==
    StartedOff =>
        \A r \in Requests :
            reqs[r].route = "/request" =>
                /\ ~reqs[r].useRealPayments
                /\ \A i \in 1..Len(reqs[r].tasks) :
                      /\ reqs[r].tasks[i].endpoint = "/analyze-free"
                      /\ reqs[r].tasks[i].client = "axios"

\* a /request-paid is between setting the flag and restoring it
PaidInProgress(r) ==
    reqs[r].route = "/request-paid" /\ reqs[r].pc \in { "client", "waiting" }

\* C27: whenever no /request-paid is in progress the flag is what it was
\* when the process started: not 'true' in a process started with paid mode
\* off ('undefined', the unset flag written back, counts as off)
C27_FlagOverrideIsTemporary ==
    (StartedOff /\ \A r \in Requests : ~PaidInProgress(r)) => env # "true"

\* C28 as stated: the totalCost of every result is at most the budget of
\* its request
C28_TotalCostWithinBudget ==
    \A r \in Requests :
        reqs[r].response.kind = "consensus" =>
            reqs[r].response.consensus.totalCost <= ValueOf(reqs[r].body.budget)

\* C28 amended: the budget bounds the price of each responding specialist,
\* so that totalCost is at most agentCount times the budget
C28_EachPriceWithinBudget ==
    \A r \in Requests :
        reqs[r].response.kind = "consensus" =>
            LET out == reqs[r].response
                budget == ValueOf(reqs[r].body.budget)
            IN  /\ \A k \in 1..Len(out.consensus.responses) :
                      priceOf(out.consensus.responses[k]) <= budget
                /\ \A i \in 1..Len(reqs[r].bids) : reqs[r].bids[i].price <= budget
                /\ out.consensus.totalCost <= out.agentCount * budget

\* C28 witness: a result for the budget 80000 whose three specialists
\* responded, at a totalCost of 210000
C28_Witness ==
    \E r \in Requests :
        /\ reqs[r].response.kind = "consensus"
        /\ ValueOf(reqs[r].body.budget) = 80000
        /\ reqs[r].response.agentCount = 3
        /\ reqs[r].response.consensus.totalCost = 210000

\* the specialists of a bid list
BiddersOf(bids) == { bids[i].agentId : i \in 1..Len(bids) }

\* C29: for a budget, getAgentBids returns the same specialists in every
\* registry state that reputation updates lead to, those it returns for the
\* registry as constructed, each with one bid; only the order of the bids
\* follows the reputations
C29_EligibilityIgnoresReputation ==
    lastCall.op = "getAgentBids" =>
        LET bids == lastCall.result
            initially == getAgentBids(initializeAgents, lastCall.budget)
        IN  /\ BiddersOf(bids) = BiddersOf(initially)
            /\ Len(bids) = Len(initially)
            /\ BiddersOf(bids) =
                   { id \in AgentIds : initializeAgents[id].basePrice <= lastCall.budget }

\* C29 witness: a specialist whose reputation dropped to 0 is among the bids
\* for its price, behind the others, whose order differs from the initial one
C29_Witness ==
    /\ lastCall.op = "getAgentBids"
    /\ lastCall.budget = 80000
    /\ Len(lastCall.result) = 3
    /\ lastCall.result[3].agentId = "history-001"
    /\ lastCall.result[3].confidence = 0
    /\ lastCall.result # getAgentBids(initializeAgents, 80000)

\* the responses a /request can send
RequestResponses ==
    { "validation", "budget-too-low", "all-agents-failed", "consensus", "internal-error" }

\* C30, in every state: a /request that has returned has sent a response
\* of one of the five kinds, and one that has not returned has sent none
C30_OneResponseState ==
    \A r \in Requests :
        reqs[r].route = "/request" =>
            /\ reqs[r].pc \in { "waiting", "done" }
            /\ reqs[r].pc = "done" => reqs[r].response.kind \in RequestResponses
            /\ reqs[r].pc = "waiting" => ~Sent(r)

\* C30, in every step: a response that was sent is not followed by another
C30_OneResponseStep ==
    \A r \in Requests :
        Sent(r) => (reqs'[r].response = reqs[r].response /\ reqs'[r].pc = "done")

\* C30: when every issued call ends, every /request eventually sends a
\* response, one of the five kinds, and never a second one
C30_ExactlyOneResponse ==
    /\ \A r \in Requests : (reqs[r].route = "/request") ~> Sent(r)
    /\ [] C30_OneResponseState
    /\ [][C30_OneResponseStep]_vars

\* C30 witness: a /request with three calls, of which one timed out and the
\* others failed, has sent the 'all agents failed' error
C30_Witness ==
    \E r \in Requests :
        /\ reqs[r].route = "/request"
        /\ Len(reqs[r].tasks) = 3
        /\ reqs[r].response.kind = "all-agents-failed"
        /\ \E i \in 1..3 : ValueOf(reqs[r].tasks[i].reply).kind = "timeout"

====
